---- MODULE Spec2Model ----
(***************************************************************************)
(* FruitsRecognitionApp: the prediction pipeline of app.py,                *)
(* utils/deepstack_client.py and utils/local_onnx.py.                      *)
(*                                                                         *)
(* Numbers.  Python floats are modelled as exact fixed-point integers in   *)
(* units of 1e-7 (ONE stands for 1.0).  Raw confidences are drawn on the   *)
(* 1e-5 grid, so that v / 100.0 is exact and round(score, 4) and           *)
(* round(percent, 2) really round.                                         *)
(*                                                                         *)
(* JSON values are records [t, s, n]: t is the JSON type, s the string of  *)
(* a "str", n the fixed-point number of a "num".  A key that is missing    *)
(* from a dict reads as JNull wherever the code reads it with .get().      *)
(***************************************************************************)
EXTENDS Integers, Sequences, FiniteSets, TLC

VARIABLES
    cvalue,      \* _normalize_confidence: the raw value passed in
    cresult,     \* _normalize_confidence: what it returned
    payload,     \* the payload handed to the extraction and to the builder
    extracted,   \* _extract_predictions: its outcome
    built,       \* build_prediction_response: its outcome
    upload,           \* predict(): request.files.get("file")
    fallbackEnabled,  \* app.config["ENABLE_LOCAL_ONNX_FALLBACK"]
    pc,               \* predict(): where the request is
    validation,       \* what validate_image_upload returned
    post,             \* what requests.post did for this request
    called,           \* what call_custom_model returned or raised
    exc,              \* the DeepstackClientError caught at line 86
    pending,          \* the exception caught at line 115
    localEnv,         \* what the local engine found on disk and in the image
    localResult,      \* what predict_with_local_onnx returned or raised
    reply,            \* the response predict() returned
    escaped,          \* the exception that left predict(), "" when none did
    remoteCalls,      \* number of calls of call_custom_model
    localCalls,       \* number of calls of predict_with_local_onnx
    cache,       \* _load_session: the entries of its lru_cache, oldest first
    tpc,         \* per request thread: where its call of _load_session is
    tkey,        \* per request thread: the model_path it passed
    tsession,    \* per request thread: the session its call returned
    tcached      \* per request thread: was the path cached when it called

normVars == <<cvalue, cresult>>
extVars == <<payload, extracted, built>>
predVars ==
    <<upload, fallbackEnabled, pc, validation, post, called, exc, pending, localEnv, localResult,
      reply, escaped, remoteCalls, localCalls>>
cacheVars == <<cache, tpc, tkey, tsession, tcached>>
vars == <<normVars, extVars, predVars, cacheVars>>

(***************************************************************************)
(* Fixed point and JSON values                                             *)
(***************************************************************************)
ONE == 1000 * 1000 * 10
FineStep == ONE \div (1000 * 100)

Max(a, b) == IF a >= b THEN a ELSE b
Min(a, b) == IF a <= b THEN a ELSE b

JNull == [t |-> "null", s |-> "", n |-> 0]
JTrue == [t |-> "true", s |-> "", n |-> 0]
JFalse == [t |-> "false", s |-> "", n |-> 0]
JStr(str) == [t |-> "str", s |-> str, n |-> 0]
JNum(num) == [t |-> "num", s |-> "", n |-> num]

\* Python truth value of a JSON value (the test of `if payload.get("error")`).
Truthy(v) ==
    CASE v.t = "null" -> FALSE
      [] v.t = "false" -> FALSE
      [] v.t = "true" -> TRUE
      [] v.t = "str" -> v.s # ""
      [] v.t = "num" -> v.n # 0

\* float(value): [ok, f].  None raises TypeError, a string that is not a
\* number raises ValueError (every string of the model is such a string),
\* True and False are 1.0 and 0.0.
FloatOf(v) ==
    CASE v.t = "num" -> [ok |-> TRUE, f |-> v.n]
      [] v.t = "true" -> [ok |-> TRUE, f |-> ONE]
      [] v.t = "false" -> [ok |-> TRUE, f |-> 0]
      [] OTHER -> [ok |-> FALSE, f |-> 0]

\* round(x, ndigits) on the grid of `grid` units, ties to the even multiple.
RoundTo(x, grid) ==
    LET q == x \div grid
        r == x % grid
    IN  IF 2 * r < grid THEN q * grid
        ELSE IF 2 * r > grid THEN (q + 1) * grid
        ELSE IF q % 2 = 0 THEN q * grid ELSE (q + 1) * grid

ScoreGrid == ONE \div (100 * 100)
PercentGrid == ONE \div 100

(***************************************************************************)
(* utils/deepstack_client.py: confidence normalisation and profile         *)
(***************************************************************************)
HighThreshold == 80
MediumThreshold == 50
TopN == 5

\* The boundary read as a percentage: 1.0 would become 1%.
NormalizeConfidencePercentAtOne(value) ==
    LET parsed == FloatOf(value)
        confidence_float == Max(0, IF parsed.ok THEN parsed.f ELSE 0)
    IN  IF confidence_float >= ONE
        THEN LET confidence_percent == Min(confidence_float, 100 * ONE)
             IN  [score |-> confidence_percent \div 100,
                  percent |-> confidence_percent]
        ELSE [score |-> confidence_float, percent |-> confidence_float * 100]

NormalizeConfidence(value) ==
    LET parsed == FloatOf(value)
        confidence_float == Max(0, IF parsed.ok THEN parsed.f ELSE 0)
    IN  IF confidence_float > ONE
        THEN LET confidence_percent == Min(confidence_float, 100 * ONE)
             IN  [score |-> confidence_percent \div 100,
                  percent |-> confidence_percent]
        ELSE [score |-> confidence_float, percent |-> confidence_float * 100]

\* Strict thresholds: exactly 80% would be "medium".
ConfidenceProfileStrict(confidence_percent) ==
    IF confidence_percent > HighThreshold * ONE
    THEN [level |-> "high", bar_class |-> "success"]
    ELSE IF confidence_percent > MediumThreshold * ONE
    THEN [level |-> "medium", bar_class |-> "warning"]
    ELSE [level |-> "low", bar_class |-> "danger"]

ConfidenceProfile(confidence_percent) ==
    IF confidence_percent >= HighThreshold * ONE
    THEN [level |-> "high", bar_class |-> "success"]
    ELSE IF confidence_percent >= MediumThreshold * ONE
    THEN [level |-> "medium", bar_class |-> "warning"]
    ELSE [level |-> "low", bar_class |-> "danger"]

(***************************************************************************)
(* utils/deepstack_client.py: payloads and _extract_predictions            *)
(*                                                                         *)
(* A payload is what response.json() returned: a dict (isDict) with an     *)
(* optional "error", an optional "label"/"confidence" pair and an optional *)
(* "predictions" value (preds.kind: "missing", "other" for a value that is *)
(* no list, "list"), or anything else.  An item of the list is a dict with *)
(* an optional label and confidence, or no dict at all.                    *)
(***************************************************************************)
\* details: the endpoint, the other keys it holds, and under "response" the
\* payload (a sequence of at most one payload).
Details(endpoint, keys, response) ==
    [endpoint |-> endpoint, keys |-> keys, response |-> response]
NoDetails == Details("", {}, <<>>)

DeepstackClientError(message, status_code, details) ==
    [message |-> message, status_code |-> status_code, details |-> details]

Prediction(label, norm) ==
    [label |-> label,
     confidence |-> RoundTo(norm.score, ScoreGrid),
     confidence_percent |-> RoundTo(norm.percent, PercentGrid)]

\* Lines 96-104: the top-level label/confidence pair, when "label" is a key.
TopLevelEntries(p) ==
    IF p.hasLabel
    THEN <<Prediction(p.label, NormalizeConfidence(p.confidence))>>
    ELSE <<>>

\* Lines 106-118: one entry per dict item of the "predictions" list.
RECURSIVE ItemEntries(_)
ItemEntries(items) ==
    IF items = <<>> THEN <<>>
    ELSE LET item == Head(items)
         IN  (IF item.isDict
              THEN <<Prediction(IF item.hasLabel THEN item.label ELSE "Unknown",
                                NormalizeConfidence(item.confidence))>>
              ELSE <<>>) \o ItemEntries(Tail(items))

ListEntries(p) == IF p.preds.kind = "list" THEN ItemEntries(p.preds.items) ELSE <<>>

\* sorted(..., key=confidence_percent, reverse=True) is stable: an entry goes
\* after every entry already placed whose key is at least its own.
\* An ascending sort read backwards: ties come out in reverse order.
InsertRankedTiesReversed(ranked, e) ==
    LET n == Cardinality({i \in 1..Len(ranked) :
                            ranked[i].confidence_percent > e.confidence_percent})
    IN  SubSeq(ranked, 1, n) \o <<e>> \o SubSeq(ranked, n + 1, Len(ranked))

InsertRanked(ranked, e) ==
    LET n == Cardinality({i \in 1..Len(ranked) :
                            ranked[i].confidence_percent >= e.confidence_percent})
    IN  SubSeq(ranked, 1, n) \o <<e>> \o SubSeq(ranked, n + 1, Len(ranked))

RECURSIVE SortRankedFrom(_, _)
SortRankedFrom(ranked, rest) ==
    IF rest = <<>> THEN ranked
    ELSE SortRankedFrom(InsertRanked(ranked, Head(rest)), Tail(rest))

SortRanked(predictions) == SortRankedFrom(<<>>, predictions)

NoError == DeepstackClientError("", 0, NoDetails)

\* The reported error raised without its details.
ExtractPredictionsNoDetails(p) ==
    IF ~p.isDict
    THEN [ok |-> FALSE, predictions |-> <<>>,
          error |-> DeepstackClientError("DeepStack response format is invalid.", 502, NoDetails)]
    ELSE IF Truthy(IF p.hasError THEN p.error ELSE JNull)
    THEN [ok |-> FALSE, predictions |-> <<>>,
          error |-> DeepstackClientError("DeepStack reported an error", 502, NoDetails)]
    ELSE LET predictions == TopLevelEntries(p) \o ListEntries(p)
         IN  IF predictions = <<>>
             THEN [ok |-> FALSE, predictions |-> <<>>,
                   error |-> DeepstackClientError(
                       "DeepStack returned no predictions for this image.", 502,
                       Details("", {"response"}, <<p>>))]
             ELSE [ok |-> TRUE, predictions |-> SortRanked(predictions),
                   error |-> NoError]

ExtractPredictions(p) ==
    IF ~p.isDict
    THEN [ok |-> FALSE, predictions |-> <<>>,
          error |-> DeepstackClientError("DeepStack response format is invalid.", 502, NoDetails)]
    ELSE IF Truthy(IF p.hasError THEN p.error ELSE JNull)
    THEN [ok |-> FALSE, predictions |-> <<>>,
          error |-> DeepstackClientError("DeepStack reported an error", 502,
                                         Details("", {"response"}, <<p>>))]
    ELSE LET predictions == TopLevelEntries(p) \o ListEntries(p)
         IN  IF predictions = <<>>
             THEN [ok |-> FALSE, predictions |-> <<>>,
                   error |-> DeepstackClientError(
                       "DeepStack returned no predictions for this image.", 502,
                       Details("", {"response"}, <<p>>))]
             ELSE [ok |-> TRUE, predictions |-> SortRanked(predictions),
                   error |-> NoError]

(***************************************************************************)
(* utils/deepstack_client.py: build_prediction_response                    *)
(* (model_name, timestamp_utc and runtime are metadata and left out)       *)
(***************************************************************************)
FirstN(s, n) == SubSeq(s, 1, Min(n, Len(s)))

NoDoc ==
    [endpoint |-> "", fruit |-> "", confidence |-> 0, confidence_percent |-> 0,
     confidence_level |-> "", confidence_bar_class |-> "", predictions |-> <<>>]

BuildPredictionResponse(deepstack_payload, endpoint) ==
    LET extraction == ExtractPredictions(deepstack_payload)
    IN  IF ~extraction.ok
        THEN [ok |-> FALSE, error |-> extraction.error, doc |-> NoDoc]
        ELSE LET predictions == extraction.predictions
                 top_prediction == predictions[1]
                 profile == ConfidenceProfile(top_prediction.confidence_percent)
             IN  [ok |-> TRUE, error |-> NoError,
                  doc |-> [endpoint |-> endpoint,
                           fruit |-> top_prediction.label,
                           confidence |-> top_prediction.confidence,
                           confidence_percent |-> top_prediction.confidence_percent,
                           confidence_level |-> profile.level,
                           confidence_bar_class |-> profile.bar_class,
                           predictions |-> FirstN(predictions, TopN)]]

(***************************************************************************)
(* SpecNorm: _normalize_confidence applied to one raw value                *)
(***************************************************************************)
NearSteps == 6

Anchors ==
    {0, ONE \div 2, (8 * ONE) \div 10, ONE, 50 * ONE, 80 * ONE, 100 * ONE}

NumInputs ==
    {a + k * FineStep : a \in Anchors, k \in (0 - NearSteps)..NearSteps}
        \cup {(k * ONE) \div 4 : k \in (0 - 8)..8}
        \cup {k * 10 * ONE + 42 * FineStep : k \in 0..12}

ConfInputs ==
    {JNull, JStr("bad"), JStr(""), JTrue, JFalse} \cup {JNum(n) : n \in NumInputs}

NoResult == [done |-> FALSE, score |-> 0, percent |-> 0]
NormIdle == cvalue = JNull /\ cresult = NoResult

NormalizeStep ==
    /\ ~cresult.done
    /\ cresult' = [done |-> TRUE,
                   score |-> NormalizeConfidence(cvalue).score,
                   percent |-> NormalizeConfidence(cvalue).percent]
    /\ UNCHANGED <<cvalue, extVars, predVars, cacheVars>>

(***************************************************************************)
(* SpecExtract: _extract_predictions and build_prediction_response applied *)
(* to one payload                                                          *)
(***************************************************************************)
MaxPreds == 5

Item(label, confidence) ==
    [isDict |-> TRUE, hasLabel |-> TRUE, label |-> label, confidence |-> confidence]
BareItem == [isDict |-> TRUE, hasLabel |-> FALSE, label |-> "", confidence |-> JNull]
NonDictItem == [isDict |-> FALSE, hasLabel |-> FALSE, label |-> "", confidence |-> JNull]

\* 80 (a percentage) and 0.79996 (a score) both rank at 80.00 after rounding.
ItemChoices ==
    {NonDictItem, BareItem, Item("Apple", JNum(80 * ONE)),
     Item("Pear", JNum(79996 * FineStep))}

RECURSIVE SeqsUpTo(_, _)
SeqsUpTo(S, n) ==
    IF n = 0 THEN {<<>>}
    ELSE LET shorter == SeqsUpTo(S, n - 1)
         IN  shorter \cup {Append(q, x) : q \in {r \in shorter : Len(r) = n - 1}, x \in S}

PredsChoices ==
    {[kind |-> "missing", items |-> <<>>], [kind |-> "other", items |-> <<>>]}
        \cup {[kind |-> "list", items |-> q] : q \in SeqsUpTo(ItemChoices, MaxPreds)}

\* 0.92, and 49.996 (a percentage that rounds up to the 50.00 threshold).
TopChoices ==
    {[hasLabel |-> FALSE, label |-> "", confidence |-> JNull]}
        \cup {[hasLabel |-> TRUE, label |-> l, confidence |-> c] :
                l \in {"Kiwi", "Plum"},
                c \in {JNull, JNum(92000 * FineStep), JNum(4999600 * FineStep)}}

ErrorChoices ==
    {[hasError |-> FALSE, error |-> JNull]}
        \cup {[hasError |-> TRUE, error |-> e] : e \in {JNull, JStr(""), JStr("model busy")}}

DictPayload(e, t, ps) ==
    [isDict |-> TRUE, hasError |-> e.hasError, error |-> e.error,
     hasLabel |-> t.hasLabel, label |-> t.label, confidence |-> t.confidence,
     preds |-> ps]

NonDictPayload ==
    [isDict |-> FALSE, hasError |-> FALSE, error |-> JNull,
     hasLabel |-> FALSE, label |-> "", confidence |-> JNull,
     preds |-> [kind |-> "missing", items |-> <<>>]]

Payloads ==
    {NonDictPayload}
        \cup {DictPayload(e, t, ps) : e \in ErrorChoices, t \in TopChoices, ps \in PredsChoices}

NotExtracted == [done |-> FALSE, ok |-> FALSE, predictions |-> <<>>, error |-> NoError]
NotBuilt == [done |-> FALSE, ok |-> FALSE, error |-> NoError, doc |-> NoDoc]
ExtIdle == payload = NonDictPayload /\ extracted = NotExtracted /\ built = NotBuilt

RemoteEndpoint == "http://localhost:5050/v1/vision/custom/FruitsRecognition"
LocalEndpoint == "local://onnx/Fruits.onnx"

ExtractStep ==
    /\ ~extracted.done /\ ~built.done
    /\ extracted' = [done |-> TRUE,
                     ok |-> ExtractPredictions(payload).ok,
                     predictions |-> ExtractPredictions(payload).predictions,
                     error |-> ExtractPredictions(payload).error]
    /\ UNCHANGED <<payload, built, normVars, predVars, cacheVars>>

BuildStep ==
    /\ ~extracted.done /\ ~built.done
    /\ \E endpoint \in {RemoteEndpoint, LocalEndpoint} :
         LET r == BuildPredictionResponse(payload, endpoint)
         IN  built' = [done |-> TRUE, ok |-> r.ok, error |-> r.error, doc |-> r.doc]
    /\ UNCHANGED <<payload, extracted, normVars, predVars, cacheVars>>

(***************************************************************************)
(* utils/deepstack_client.py: validate_image_upload                        *)
(*                                                                         *)
(* File names and media types are sequences of characters.                 *)
(***************************************************************************)
ALLOWED_EXTENSIONS ==
    {<<"j", "p", "g">>, <<"j", "p", "e", "g">>, <<"p", "n", "g">>,
     <<"b", "m", "p">>, <<"g", "i", "f">>, <<"w", "e", "b", "p">>}
ALLOWED_MIME_PREFIX == <<"i", "m", "a", "g", "e", "/">>

Letters == {"p", "n", "g", "P"}
UpperToLower == [P |-> "p", N |-> "n", G |-> "g", J |-> "j"]
LowerChar(c) == IF c \in DOMAIN UpperToLower THEN UpperToLower[c] ELSE c
Lower(str) == [i \in 1..Len(str) |-> LowerChar(str[i])]

RECURSIVE LStrip(_, _)
LStrip(str, chars) ==
    IF str # <<>> /\ Head(str) \in chars THEN LStrip(Tail(str), chars) ELSE str

RECURSIVE RStrip(_, _)
RStrip(str, chars) ==
    IF str # <<>> /\ str[Len(str)] \in chars
    THEN RStrip(SubSeq(str, 1, Len(str) - 1), chars)
    ELSE str

Strip(str, chars) == RStrip(LStrip(str, chars), chars)

\* "_".join(str.split()) of a string without leading or trailing blanks.
RECURSIVE JoinWords(_)
JoinWords(str) ==
    IF str = <<>> THEN <<>>
    ELSE IF Head(str) # " " THEN <<Head(str)>> \o JoinWords(Tail(str))
    ELSE IF Len(str) > 1 /\ str[2] = " " THEN JoinWords(Tail(str))
    ELSE <<"_">> \o JoinWords(Tail(str))

IsFilenameChar(c) == c \in Letters \cup {"_", ".", "-"}

\* werkzeug.utils.secure_filename: path separators become blanks, the words
\* are joined by "_", characters outside [A-Za-z0-9_.-] are dropped, and
\* leading and trailing dots and underscores are stripped.
SecureFilename(filename) ==
    LET blanked == [i \in 1..Len(filename) |->
                       IF filename[i] = "/" THEN " " ELSE filename[i]]
        joined == JoinWords(Strip(blanked, {" "}))
    IN  Strip(SelectSeq(joined, IsFilenameChar), {".", "_"})

HasDot(str) == \E i \in 1..Len(str) : str[i] = "."

\* str.rsplit(".", 1)[1]: what follows the last dot.
AfterLastDot(str) ==
    LET last == CHOOSE i \in 1..Len(str) :
                    str[i] = "." /\ \A j \in (i + 1)..Len(str) : str[j] # "."
    IN  SubSeq(str, last + 1, Len(str))

StartsWith(str, prefix) ==
    Len(str) >= Len(prefix) /\ SubSeq(str, 1, Len(prefix)) = prefix

Rejected(message) == [ok |-> FALSE, error |-> message]

\* The media type checked before the extension.
ValidateImageUploadMimeFirst(uploaded_file) ==
    IF ~uploaded_file.hasFile THEN Rejected("No file was uploaded.")
    ELSE LET filename == SecureFilename(uploaded_file.filename)
             mimetype == uploaded_file.mimetype
         IN  IF filename = <<>> THEN Rejected("Please choose an image file first.")
             ELSE IF ~HasDot(filename) THEN Rejected("Uploaded file has no extension.")
             ELSE IF mimetype # <<>> /\ ~StartsWith(mimetype, ALLOWED_MIME_PREFIX)
             THEN Rejected("Invalid file MIME type")
             ELSE IF Lower(AfterLastDot(filename)) \notin ALLOWED_EXTENSIONS
             THEN Rejected("Unsupported file type")
             ELSE [ok |-> TRUE, error |-> ""]

ValidateImageUpload(uploaded_file) ==
    IF ~uploaded_file.hasFile THEN Rejected("No file was uploaded.")
    ELSE LET filename == SecureFilename(uploaded_file.filename)
             mimetype == uploaded_file.mimetype
         IN  IF filename = <<>> THEN Rejected("Please choose an image file first.")
             ELSE IF ~HasDot(filename) THEN Rejected("Uploaded file has no extension.")
             ELSE IF Lower(AfterLastDot(filename)) \notin ALLOWED_EXTENSIONS
             THEN Rejected("Unsupported file type")
             ELSE IF mimetype # <<>> /\ ~StartsWith(mimetype, ALLOWED_MIME_PREFIX)
             THEN Rejected("Invalid file MIME type")
             ELSE [ok |-> TRUE, error |-> ""]

(***************************************************************************)
(* utils/deepstack_client.py: call_custom_model                            *)
(*                                                                         *)
(* post is what the one requests.post did: kind "transport" (it raised a   *)
(* RequestException), "crash" (line 142 or requests raised anything else)  *)
(* or "response" with a status code, a body that parses as JSON or not,    *)
(* and the parsed payload.                                                 *)
(***************************************************************************)
NoCallResult == [endpoint |-> "", status_code |-> 0, payload |-> NonDictPayload]

Raise(error) == [outcome |-> "DeepstackClientError", error |-> error, result |-> NoCallResult]

\* Every failing status reported as 502, the default of the error class.
CallCustomModelDefaultStatus(response) ==
    IF response.kind = "crash"
    THEN [outcome |-> "Exception", error |-> NoError, result |-> NoCallResult]
    ELSE IF response.kind = "transport"
    THEN Raise(DeepstackClientError("Could not reach DeepStack service.", 503,
                                    Details(RemoteEndpoint, {"exception"}, <<>>)))
    ELSE IF response.status_code = 404
    THEN Raise(DeepstackClientError("DeepStack custom endpoint was not found.", 404,
                                    Details(RemoteEndpoint, {"response_preview", "hint"}, <<>>)))
    ELSE IF response.status_code # 200
    THEN Raise(DeepstackClientError("DeepStack returned HTTP", 502,
                                    Details(RemoteEndpoint, {"response_preview"}, <<>>)))
    ELSE IF ~response.json
    THEN Raise(DeepstackClientError("DeepStack returned a non-JSON response.", 502,
                                    Details(RemoteEndpoint, {"response_preview"}, <<>>)))
    ELSE [outcome |-> "return", error |-> NoError,
          result |-> [endpoint |-> RemoteEndpoint,
                      status_code |-> response.status_code,
                      payload |-> response.payload]]

CallCustomModel(response) ==
    IF response.kind = "crash"
    THEN [outcome |-> "Exception", error |-> NoError, result |-> NoCallResult]
    ELSE IF response.kind = "transport"
    THEN Raise(DeepstackClientError("Could not reach DeepStack service.", 503,
                                    Details(RemoteEndpoint, {"exception"}, <<>>)))
    ELSE IF response.status_code = 404
    THEN Raise(DeepstackClientError("DeepStack custom endpoint was not found.", 404,
                                    Details(RemoteEndpoint, {"response_preview", "hint"}, <<>>)))
    ELSE IF response.status_code # 200
    THEN Raise(DeepstackClientError("DeepStack returned HTTP", response.status_code,
                                    Details(RemoteEndpoint, {"response_preview"}, <<>>)))
    ELSE IF ~response.json
    THEN Raise(DeepstackClientError("DeepStack returned a non-JSON response.", 502,
                                    Details(RemoteEndpoint, {"response_preview"}, <<>>)))
    ELSE [outcome |-> "return", error |-> NoError,
          result |-> [endpoint |-> RemoteEndpoint,
                      status_code |-> response.status_code,
                      payload |-> response.payload]]

(***************************************************************************)
(* utils/local_onnx.py: predict_with_local_onnx                            *)
(*                                                                         *)
(* env is what the engine finds: the config file ("ok", "missing",         *)
(* "malformed": not JSON, "badsize": a width that int() refuses), the      *)
(* model file ("ok", "missing", "corrupt": InferenceSession refuses it),   *)
(* whether _load_session has the session cached, whether the image         *)
(* decodes, whether session.run succeeds, and the output of _softmax.      *)
(***************************************************************************)
LabelMap == [i \in {0, 1} |-> IF i = 0 THEN "Apple" ELSE "Banana"]
ClassLabels == <<"class_0", "class_1", "class_2", "class_3">>
LabelFor(class_index) ==
    IF class_index \in DOMAIN LabelMap THEN LabelMap[class_index]
    ELSE ClassLabels[class_index + 1]

\* _softmax returns a distribution, or the zero vector when the sum is <= 0.
ProbChoices ==
    {<<(7 * ONE) \div 10, (2 * ONE) \div 10, ONE \div 10>>,
     <<(2 * ONE) \div 10, 79996 * FineStep, 4 * FineStep>>,
     <<0, 0, 0>>}

InsertByConfidence(ranked, e) ==
    LET n == Cardinality({i \in 1..Len(ranked) : ranked[i].confidence >= e.confidence})
    IN  SubSeq(ranked, 1, n) \o <<e>> \o SubSeq(ranked, n + 1, Len(ranked))

RECURSIVE SortByConfidenceFrom(_, _)
SortByConfidenceFrom(ranked, rest) ==
    IF rest = <<>> THEN ranked
    ELSE SortByConfidenceFrom(InsertByConfidence(ranked, Head(rest)), Tail(rest))

\* Lines 96-106: label and probability per class index, sorted descending.
LocalPredictions(probabilities) ==
    SortByConfidenceFrom(<<>>,
        [i \in 1..Len(probabilities) |->
            [label |-> LabelFor(i - 1), confidence |-> probabilities[i]]])

LocalRaise(kind) == [outcome |-> kind, predictions |-> <<>>]

PredictWithLocalOnnx(env) ==
    IF env.config = "missing" THEN LocalRaise("LocalModelError")
    ELSE IF env.config = "malformed" THEN LocalRaise("Exception")
    ELSE IF ~env.cached /\ env.model = "missing" THEN LocalRaise("LocalModelError")
    ELSE IF ~env.cached /\ env.model = "corrupt" THEN LocalRaise("Exception")
    ELSE IF env.config = "badsize" THEN LocalRaise("Exception")
    ELSE IF ~env.image THEN LocalRaise("LocalModelError")
    ELSE IF ~env.run THEN LocalRaise("LocalModelError")
    ELSE [outcome |-> "return", predictions |-> LocalPredictions(env.probs)]

\* {"predictions": local_predictions}, line 90.
LocalPayload(local_predictions) ==
    [isDict |-> TRUE, hasError |-> FALSE, error |-> JNull,
     hasLabel |-> FALSE, label |-> "", confidence |-> JNull,
     preds |-> [kind |-> "list",
                items |-> [i \in 1..Len(local_predictions) |->
                              Item(local_predictions[i].label,
                                   JNum(local_predictions[i].confidence))]]]

(***************************************************************************)
(* app.py: predict()                                                       *)
(***************************************************************************)
NoResponse ==
    [status |-> 0, success |-> FALSE, fallback |-> FALSE, warning |-> "",
     error |-> "", details |-> NoDetails, cause |-> "", data |-> NoDoc]

\* Line 62.
ValidationResponse(validation_error) ==
    [NoResponse EXCEPT !.status = 400, !.error = validation_error]

\* Line 84.
SuccessResponse(data) ==
    [NoResponse EXCEPT !.status = 200, !.success = TRUE, !.data = data]

\* Lines 96-109.
FallbackResponse(data) ==
    [NoResponse EXCEPT !.status = 200, !.success = TRUE, !.fallback = TRUE,
                       !.warning = "Used local ONNX fallback model.", !.data = data]

\* The error surfaced under the default status of the error class.
ErrorResponseDefaultStatus(e) ==
    [NoResponse EXCEPT !.status = 502, !.error = e.message, !.details = e.details]

\* Line 114.
ErrorResponse(e) ==
    [NoResponse EXCEPT !.status = e.status_code, !.error = e.message,
                       !.details = e.details]

\* Lines 117-126.
UnexpectedResponse(cause) ==
    [NoResponse EXCEPT !.status = 500,
                       !.error = "Unexpected server error while processing the prediction.",
                       !.cause = cause]

\* The flag forgotten: every 404 falls back.
ShouldFallbackIgnoringFlag(e, enabled) == e.status_code = 404

\* Line 87.
ShouldFallback(e, enabled) == e.status_code = 404 /\ enabled

MaxNameLen == 5

NameChars == {"p", "n", "g", "P", ".", "/", "$"}
MimeTypes ==
    {<<>>, <<"i", "m", "a", "g", "e", "/", "p", "n", "g">>,
     <<"t", "e", "x", "t", "/", "p", "l", "a", "i", "n">>}

NoUpload == [hasFile |-> FALSE, filename |-> <<>>, mimetype |-> <<>>]
Uploads ==
    {NoUpload}
        \cup {[hasFile |-> TRUE, filename |-> f, mimetype |-> m] :
                f \in SeqsUpTo(NameChars, MaxNameLen), m \in MimeTypes}

StatusCodes == {200, 201, 404, 500, 502, 503}

Label(label, confidence) ==
    [hasLabel |-> TRUE, label |-> label, confidence |-> confidence]
NoTop == [hasLabel |-> FALSE, label |-> "", confidence |-> JNull]
NoErrorField == [hasError |-> FALSE, error |-> JNull]
NoPreds == [kind |-> "missing", items |-> <<>>]

\* The payloads of the documented examples, and an empty error beside a label.
RemotePayloads ==
    {NonDictPayload,
     DictPayload(NoErrorField, NoTop, NoPreds),
     DictPayload([hasError |-> TRUE, error |-> JStr("model busy")], NoTop, NoPreds),
     DictPayload([hasError |-> TRUE, error |-> JStr("")],
                 Label("Apple", JNum(92000 * FineStep)), NoPreds),
     DictPayload(NoErrorField, Label("Apple", JNum(92000 * FineStep)), NoPreds),
     DictPayload(NoErrorField, NoTop,
                 [kind |-> "list",
                  items |-> <<Item("Pear", JNum(30 * ONE)), Item("Plum", JNum(70 * ONE))>>])}

NoPost == [kind |-> "none", status_code |-> 0, json |-> FALSE, payload |-> NonDictPayload]
PostOutcomes ==
    {[NoPost EXCEPT !.kind = "transport"], [NoPost EXCEPT !.kind = "crash"]}
        \cup {[kind |-> "response", status_code |-> sc, json |-> FALSE,
               payload |-> NonDictPayload] : sc \in StatusCodes}
        \cup {[kind |-> "response", status_code |-> sc, json |-> TRUE, payload |-> p] :
                sc \in StatusCodes, p \in RemotePayloads}

NoCall == [outcome |-> "none", error |-> NoError, result |-> NoCallResult]

NoLocalEnv ==
    [config |-> "ok", model |-> "ok", cached |-> FALSE, image |-> TRUE, run |-> TRUE,
     probs |-> <<>>]
LocalEnvs ==
    {[config |-> c, model |-> m, cached |-> k, image |-> i, run |-> r, probs |-> pr] :
        c \in {"ok", "missing", "malformed", "badsize"},
        m \in {"ok", "missing", "corrupt"},
        k \in BOOLEAN, i \in BOOLEAN, r \in BOOLEAN, pr \in ProbChoices}
NoLocalResult == [outcome |-> "none", predictions |-> <<>>]
NotValidated == [done |-> FALSE, ok |-> FALSE, error |-> ""]

PredIdle ==
    /\ upload = NoUpload /\ fallbackEnabled = FALSE /\ pc = "idle" /\ validation = NotValidated
    /\ post = NoPost /\ called = NoCall /\ exc = NoError /\ pending = ""
    /\ localEnv = NoLocalEnv /\ localResult = NoLocalResult
    /\ reply = NoResponse /\ escaped = "" /\ remoteCalls = 0 /\ localCalls = 0

\* Lines 60-62.
PredictValidate ==
    /\ pc = "validate"
    /\ LET checked == ValidateImageUpload(upload)
       IN  /\ validation' = [done |-> TRUE, ok |-> checked.ok, error |-> checked.error]
           /\ IF checked.ok
              THEN pc' = "call" /\ UNCHANGED reply
              ELSE pc' = "done" /\ reply' = ValidationResponse(checked.error)
    /\ UNCHANGED <<upload, fallbackEnabled, post, called, exc, pending, localEnv,
                   localResult, escaped, remoteCalls, localCalls, normVars, extVars, cacheVars>>

\* Lines 64-77: the call, and where its outcome sends the request.
PredictCallRemote ==
    /\ pc = "call"
    /\ \E outcome \in PostOutcomes :
         /\ post' = outcome
         /\ called' = CallCustomModel(outcome)
    /\ remoteCalls' = remoteCalls + 1
    /\ exc' = IF called'.outcome = "DeepstackClientError" THEN called'.error ELSE exc
    /\ pending' = IF called'.outcome = "Exception" THEN "Exception" ELSE pending
    /\ pc' = CASE called'.outcome = "return" -> "build"
               [] called'.outcome = "DeepstackClientError" -> "handler"
               [] OTHER -> "unexpected"
    /\ UNCHANGED <<upload, fallbackEnabled, validation, localEnv, localResult, reply, escaped,
                   localCalls, normVars, extVars, cacheVars>>

\* Lines 79-84.
PredictBuildRemote ==
    /\ pc = "build"
    /\ LET r == BuildPredictionResponse(called.result.payload, called.result.endpoint)
       IN  IF r.ok
           THEN pc' = "done" /\ reply' = SuccessResponse(r.doc) /\ UNCHANGED exc
           ELSE pc' = "handler" /\ exc' = r.error /\ UNCHANGED reply
    /\ UNCHANGED <<upload, fallbackEnabled, validation, post, called, pending, localEnv, localResult,
                   escaped, remoteCalls, localCalls, normVars, extVars, cacheVars>>

\* Lines 86-87.
PredictHandleClientError ==
    /\ pc = "handler"
    /\ pc' = IF ShouldFallback(exc, fallbackEnabled) THEN "fallback" ELSE "surface"
    /\ UNCHANGED <<upload, fallbackEnabled, validation, post, called, exc, pending, localEnv,
                   localResult, reply, escaped, remoteCalls, localCalls,
                   normVars, extVars, cacheVars>>

\* Lines 88-89 and 110-111.  The call runs inside the handler of line 86:
\* LocalModelError is caught at line 110, and nothing else is caught, the
\* clause of line 115 guarding only the try body of lines 65-84.
PredictFallbackLocal ==
    /\ pc = "fallback"
    /\ \E env \in LocalEnvs :
         /\ localEnv' = env
         /\ localResult' = PredictWithLocalOnnx(env)
    /\ localCalls' = localCalls + 1
    /\ pc' = CASE localResult'.outcome = "return" -> "fallback_build"
               [] localResult'.outcome = "LocalModelError" -> "surface"
               [] OTHER -> "done"
    /\ escaped' = IF localResult'.outcome = "Exception" THEN "Exception" ELSE escaped
    /\ UNCHANGED <<upload, fallbackEnabled, validation, post, called, exc, pending, reply,
                   remoteCalls, normVars, extVars, cacheVars>>

\* Lines 90-109, inside the same handler.
PredictFallbackBuild ==
    /\ pc = "fallback_build"
    /\ LET r == BuildPredictionResponse(LocalPayload(localResult.predictions), LocalEndpoint)
       IN  IF r.ok
           THEN reply' = FallbackResponse(r.doc) /\ UNCHANGED escaped
           ELSE escaped' = "DeepstackClientError" /\ UNCHANGED reply
    /\ pc' = "done"
    /\ UNCHANGED <<upload, fallbackEnabled, validation, post, called, exc, pending, localEnv,
                   localResult, remoteCalls, localCalls, normVars, extVars, cacheVars>>

\* Lines 113-114.
PredictSurfaceError ==
    /\ pc = "surface"
    /\ reply' = ErrorResponse(exc)
    /\ pc' = "done"
    /\ UNCHANGED <<upload, fallbackEnabled, validation, post, called, exc, pending, localEnv,
                   localResult, escaped, remoteCalls, localCalls, normVars, extVars, cacheVars>>

\* Lines 115-126.
PredictUnexpectedError ==
    /\ pc = "unexpected"
    /\ reply' = UnexpectedResponse(pending)
    /\ pc' = "done"
    /\ UNCHANGED <<upload, fallbackEnabled, validation, post, called, exc, pending, localEnv,
                   localResult, escaped, remoteCalls, localCalls, normVars, extVars, cacheVars>>

(***************************************************************************)
(* utils/local_onnx.py: _load_session under @lru_cache(maxsize=4), called  *)
(* by the threads of concurrent requests                                   *)
(*                                                                         *)
(* functools.lru_cache looks the key up and, on a miss, calls the function *)
(* without holding any lock; when the call returns it stores the result    *)
(* unless the key has been stored meanwhile, evicting the oldest entry     *)
(* when the cache is full.  An exception is not cached.  A session is      *)
(* named by its path and the thread that loaded it.                        *)
(***************************************************************************)
LruMaxSize == 4
NumThreads == 2

Threads == 1..NumThreads
ModelPaths == {"Fruits.onnx", "Other.onnx"}
NoSession == [path |-> "", loader |-> 0]

LruKeys(entries) == {entries[i].key : i \in 1..Len(entries)}

LruEntry(entries, key) ==
    entries[CHOOSE i \in 1..Len(entries) : entries[i].key = key]

\* A cache that never finds anything.
LruHitNever(entries, key) == FALSE

LruHit(entries, key) == key \in LruKeys(entries)

\* A hit makes the entry the most recent one.
LruTouch(entries, key) ==
    LET NotKey(e) == e.key # key
    IN  Append(SelectSeq(entries, NotKey), LruEntry(entries, key))

\* The result stored without looking whether the key arrived meanwhile.
LruStoreUnchecked(entries, key, session) ==
    IF Len(entries) < LruMaxSize
    THEN Append(entries, [key |-> key, session |-> session])
    ELSE Append(Tail(entries), [key |-> key, session |-> session])

LruStore(entries, key, session) ==
    IF key \in LruKeys(entries) THEN entries
    ELSE IF Len(entries) < LruMaxSize
    THEN Append(entries, [key |-> key, session |-> session])
    ELSE Append(Tail(entries), [key |-> key, session |-> session])

CacheIdle ==
    /\ cache = <<>>
    /\ tpc = [t \in Threads |-> "idle"]
    /\ tkey = [t \in Threads |-> ""]
    /\ tsession = [t \in Threads |-> NoSession]
    /\ tcached = [t \in Threads |-> FALSE]

\* _load_session(model_path) is called: the lookup of the wrapper.
LoadSessionCall(t) ==
    /\ tpc[t] # "loading"
    /\ \E model_path \in ModelPaths :
         /\ tkey' = [tkey EXCEPT ![t] = model_path]
         /\ tcached' = [tcached EXCEPT ![t] = \E i \in 1..Len(cache) : cache[i].key = model_path]
         /\ IF LruHit(cache, model_path)
            THEN /\ tsession' = [tsession EXCEPT ![t] = LruEntry(cache, model_path).session]
                 /\ cache' = LruTouch(cache, model_path)
                 /\ tpc' = [tpc EXCEPT ![t] = "returned"]
            ELSE /\ tsession' = [tsession EXCEPT ![t] = NoSession]
                 /\ tpc' = [tpc EXCEPT ![t] = "loading"]
                 /\ UNCHANGED cache
    /\ UNCHANGED <<normVars, extVars, predVars>>

\* Lines 23-28 ran: the file is missing (LocalModelError), InferenceSession
\* refused it, or the session is returned and the wrapper stores it.
LoadSessionFinish(t) ==
    /\ tpc[t] = "loading"
    /\ \E model \in {"ok", "missing", "corrupt"} :
         IF model = "ok"
         THEN /\ tsession' = [tsession EXCEPT ![t] = [path |-> tkey[t], loader |-> t]]
              /\ cache' = LruStore(cache, tkey[t], [path |-> tkey[t], loader |-> t])
              /\ tpc' = [tpc EXCEPT ![t] = "returned"]
         ELSE /\ tpc' = [tpc EXCEPT ![t] =
                             IF model = "missing" THEN "LocalModelError" ELSE "Exception"]
              /\ UNCHANGED <<cache, tsession>>
    /\ UNCHANGED <<tkey, tcached, normVars, extVars, predVars>>

(***************************************************************************)
(* Specifications                                                          *)
(***************************************************************************)
InitNorm == cvalue \in ConfInputs /\ cresult = NoResult /\ ExtIdle /\ PredIdle /\ CacheIdle
NextNorm == NormalizeStep
SpecNorm == InitNorm /\ [][NextNorm]_vars

InitExtract == payload \in Payloads /\ extracted = NotExtracted /\ built = NotBuilt /\ NormIdle /\ PredIdle /\ CacheIdle
NextExtract == ExtractStep \/ BuildStep
SpecExtract == InitExtract /\ [][NextExtract]_vars

InitPredict ==
    /\ upload \in Uploads /\ fallbackEnabled \in BOOLEAN /\ pc = "validate"
    /\ validation = NotValidated /\ post = NoPost /\ called = NoCall /\ exc = NoError /\ pending = ""
    /\ localEnv = NoLocalEnv /\ localResult = NoLocalResult
    /\ reply = NoResponse /\ escaped = "" /\ remoteCalls = 0 /\ localCalls = 0
    /\ NormIdle /\ ExtIdle /\ CacheIdle
NextPredict ==
    \/ PredictValidate
    \/ PredictCallRemote
    \/ PredictBuildRemote
    \/ PredictHandleClientError
    \/ PredictFallbackLocal
    \/ PredictFallbackBuild
    \/ PredictSurfaceError
    \/ PredictUnexpectedError
SpecPredict == InitPredict /\ [][NextPredict]_vars

InitCache == CacheIdle /\ NormIdle /\ ExtIdle /\ PredIdle
NextCache == \E t \in Threads : LoadSessionCall(t) \/ LoadSessionFinish(t)
SpecCache == InitCache /\ [][NextCache]_vars

(***************************************************************************)
(* Properties                                                              *)
(***************************************************************************)
IsNumeric(v) == v.t \in {"num", "true", "false"}
NumberOf(v) == IF v.t = "num" THEN v.n ELSE IF v.t = "true" THEN ONE ELSE 0

DictItemCount(p) ==
    IF p.preds.kind = "list"
    THEN Cardinality({i \in 1..Len(p.preds.items) : p.preds.items[i].isDict})
    ELSE 0

KeysOf(seq) == {seq[i].confidence_percent : i \in 1..Len(seq)}

WithKey(seq, k) ==
    LET HasKey(e) == e.confidence_percent = k IN SelectSeq(seq, HasKey)

\* C6: whenever _extract_predictions returns, the list holds one entry for
\* the top-level pair (if "label" is a key) plus one per dict item of the
\* "predictions" list, is ordered by non-increasing confidence_percent, and
\* entries of equal confidence_percent are in first-seen order (top-level
\* pair first, then the list items in payload order).
C6_RankedStable ==
    (extracted.done /\ extracted.ok) =>
        LET out == extracted.predictions
            seen == TopLevelEntries(payload) \o ListEntries(payload)
        IN  /\ Len(out) = (IF payload.hasLabel THEN 1 ELSE 0) + DictItemCount(payload)
            /\ \A i \in 1..Len(out) : \A j \in 1..Len(out) :
                   i < j => out[i].confidence_percent >= out[j].confidence_percent
            /\ KeysOf(out) = KeysOf(seen)
            /\ \A k \in KeysOf(seen) : WithKey(out, k) = WithKey(seen, k)

\* Two different entries tie at 80.00 and a non-dict item was skipped.
C6_Witness ==
    /\ extracted.done /\ extracted.ok
    /\ payload.hasLabel
    /\ DictItemCount(payload) < Len(payload.preds.items)
    /\ \E i \in 1..Len(extracted.predictions) : \E j \in 1..Len(extracted.predictions) :
           /\ i < j
           /\ extracted.predictions[i].confidence_percent
                  = extracted.predictions[j].confidence_percent
           /\ extracted.predictions[i].label # extracted.predictions[j].label

Raised502WithPayload(r) ==
    /\ r.done /\ ~r.ok
    /\ r.error.status_code = 502
    /\ r.error.details.response = <<payload>>

\* C7 as stated: for every payload with a top-level "error" key, whatever its
\* value, _extract_predictions and build_prediction_response fail with a 502
\* error whose details carry the payload, and produce nothing.
C7_AnyErrorFieldRaises ==
    (payload.isDict /\ payload.hasError) =>
        /\ extracted.done => (Raised502WithPayload(extracted) /\ extracted.predictions = <<>>)
        /\ built.done => (Raised502WithPayload(built) /\ built.doc = NoDoc)

\* C7 amended: the same for every payload whose "error" value is truthy.
C7_TruthyErrorRaises ==
    (payload.isDict /\ payload.hasError /\ Truthy(payload.error)) =>
        /\ extracted.done => (Raised502WithPayload(extracted) /\ extracted.predictions = <<>>)
        /\ built.done => (Raised502WithPayload(built) /\ built.doc = NoDoc)

\* A payload with a truthy error next to a label and a list was refused.
C7_Witness ==
    /\ built.done /\ ~built.ok
    /\ payload.hasError /\ Truthy(payload.error)
    /\ payload.hasLabel /\ DictItemCount(payload) > 0
    /\ built.error.status_code = 502

\* C9: a document that build_prediction_response returns reports the first
\* entry of the ranked list (so no extracted entry has a higher
\* confidence_percent), its level is "high" iff percent >= 80, "medium" iff
\* 50 <= percent < 80 and "low" otherwise, and its predictions are the prefix
\* of the ranked list of length min(5, n): never empty, never longer than 5.
C9_TopAndPrefix ==
    (built.done /\ built.ok) =>
        LET doc == built.doc
            ranked == ExtractPredictions(payload).predictions
            seen == TopLevelEntries(payload) \o ListEntries(payload)
            n == Len(ranked)
        IN  /\ n >= 1
            /\ doc.fruit = ranked[1].label
            /\ doc.confidence = ranked[1].confidence
            /\ doc.confidence_percent = ranked[1].confidence_percent
            /\ \A i \in 1..Len(seen) : seen[i].confidence_percent <= doc.confidence_percent
            /\ (doc.confidence_level = "high") <=> (doc.confidence_percent >= 80 * ONE)
            /\ (doc.confidence_level = "medium") <=>
                   (50 * ONE <= doc.confidence_percent /\ doc.confidence_percent < 80 * ONE)
            /\ (doc.confidence_level = "low") <=> (doc.confidence_percent < 50 * ONE)
            /\ Len(doc.predictions) = (IF n < 5 THEN n ELSE 5)
            /\ Len(doc.predictions) >= 1 /\ Len(doc.predictions) <= 5
            /\ \A i \in 1..Len(doc.predictions) : doc.predictions[i] = ranked[i]

\* More than five entries were extracted, the top one exactly at 80.00.
C9_Witness ==
    /\ built.done /\ built.ok
    /\ Len(TopLevelEntries(payload) \o ListEntries(payload)) > 5
    /\ Len(built.doc.predictions) = 5
    /\ built.doc.confidence_percent = 80 * ONE
    /\ built.doc.confidence_level = "high"

\* C1: the local engine is called if and only if the remote call or the
\* building of the remote response raised a DeepstackClientError of status
\* exactly 404 and the fallback flag is enabled; any other status, or a 404
\* with the flag disabled, never reaches it.
C1_FallbackOnlyOn404 ==
    /\ localCalls <= 1
    /\ localCalls > 0 => (exc # NoError /\ exc.status_code = 404 /\ fallbackEnabled)
    /\ (pc = "done" /\ exc # NoError /\ exc.status_code = 404 /\ fallbackEnabled)
           => localCalls = 1

\* A 404 with the flag enabled ended after one call of the local engine.
C1_Witness ==
    /\ pc = "done" /\ post.kind = "response" /\ post.status_code = 404
    /\ fallbackEnabled /\ localCalls = 1 /\ remoteCalls = 1

\* C2: when the remote call fails with 404, the fallback is enabled and the
\* local engine raises LocalModelError, predict() returns the remote error
\* unmodified (message, status 404, details), never the local failure, and
\* no success or fallback response.
C2_LocalFailureSurfacesRemote ==
    (pc = "done" /\ called.outcome = "DeepstackClientError"
         /\ called.error.status_code = 404 /\ fallbackEnabled
         /\ localResult.outcome = "LocalModelError")
        => /\ reply.status = 404
           /\ reply.error = called.error.message
           /\ reply.details = called.error.details
           /\ ~reply.success /\ ~reply.fallback
           /\ reply.data = NoDoc /\ reply.warning = ""
           /\ escaped = ""

\* The local engine failed on a missing model file and the 404 was returned.
C2_Witness ==
    /\ pc = "done" /\ fallbackEnabled /\ localCalls = 1
    /\ localResult.outcome = "LocalModelError"
    /\ localEnv.config = "ok" /\ localEnv.model = "missing"
    /\ reply.status = 404 /\ reply.error = "DeepStack custom endpoint was not found."

\* C3 as stated: once the upload is accepted, an exception that is neither a
\* DeepstackClientError nor a LocalModelError, wherever predict() meets it,
\* ends in the generic 500 response; nothing propagates out of predict() and
\* every request ends with one response.
C3_EveryExceptionBecomes500 ==
    pc = "done" =>
        /\ escaped = ""
        /\ reply # NoResponse
        /\ (pending # "" \/ localResult.outcome = "Exception") => reply.status = 500

\* C4: call_custom_model maps the outcome of its one POST to one result: a
\* transport failure raises 503, a 404 response raises 404, any other
\* response that is not 200 raises that same status, a 200 whose body does
\* not parse raises 502, and only a 200 with a parseable body returns
\* (endpoint, status 200, payload).
C4_CallOutcomeMapping ==
    (called.outcome # "none" /\ post.kind \in {"transport", "response"}) =>
        LET raised == called.outcome = "DeepstackClientError"
            returns == post.kind = "response" /\ post.status_code = 200 /\ post.json
        IN  /\ called.outcome \in {"DeepstackClientError", "return"}
            /\ post.kind = "transport" => (raised /\ called.error.status_code = 503)
            /\ (post.kind = "response" /\ post.status_code = 404)
                   => (raised /\ called.error.status_code = 404)
            /\ (post.kind = "response" /\ post.status_code # 200)
                   => (raised /\ called.error.status_code = post.status_code)
            /\ (post.kind = "response" /\ post.status_code = 200 /\ ~post.json)
                   => (raised /\ called.error.status_code = 502)
            /\ returns <=> called.outcome = "return"
            /\ returns => called.result = [endpoint |-> RemoteEndpoint, status_code |-> 200,
                                           payload |-> post.payload]
            /\ raised => called.result = NoCallResult

\* A 201 response with a JSON body was refused under its own status.
C4_Witness ==
    /\ called.outcome = "DeepstackClientError"
    /\ post.kind = "response" /\ post.status_code = 201 /\ post.json
    /\ called.error.status_code = 201

\* C8: validate_image_upload applies its rules in order and the first one
\* that fails decides the error: missing handle, empty sanitized name, no
\* extension, extension (lower-cased) outside the allow-list, a declared
\* media type that does not start with "image/".  It accepts exactly when
\* no rule fails, and after a rejection predict() makes no remote call and
\* no local inference.
C8_FirstFailingRuleDecides ==
    validation.done =>
        LET noHandle == ~upload.hasFile
            name == SecureFilename(upload.filename)
            emptyName == name = <<>>
            noExtension == ~HasDot(name)
            badExtension == Lower(AfterLastDot(name)) \notin ALLOWED_EXTENSIONS
            badMime == /\ upload.mimetype # <<>>
                       /\ ~StartsWith(upload.mimetype, ALLOWED_MIME_PREFIX)
        IN  /\ noHandle => validation.error = "No file was uploaded."
            /\ (~noHandle /\ emptyName)
                   => validation.error = "Please choose an image file first."
            /\ (~noHandle /\ ~emptyName /\ noExtension)
                   => validation.error = "Uploaded file has no extension."
            /\ (~noHandle /\ ~emptyName /\ ~noExtension /\ badExtension)
                   => validation.error = "Unsupported file type"
            /\ (~noHandle /\ ~emptyName /\ ~noExtension /\ ~badExtension /\ badMime)
                   => validation.error = "Invalid file MIME type"
            /\ validation.ok <=>
                   (~noHandle /\ ~emptyName /\ ~noExtension /\ ~badExtension /\ ~badMime)
            /\ validation.ok <=> validation.error = ""
            /\ ~validation.ok =>
                   /\ pc = "done" /\ remoteCalls = 0 /\ localCalls = 0
                   /\ reply = ValidationResponse(validation.error)

\* A name whose extension is refused came with a media type that is refused
\* too: the extension rule decided.
C8_Witness ==
    /\ validation.done /\ ~validation.ok
    /\ upload.hasFile /\ HasDot(SecureFilename(upload.filename))
    /\ Lower(AfterLastDot(SecureFilename(upload.filename))) \notin ALLOWED_EXTENSIONS
    /\ upload.mimetype # <<>> /\ ~StartsWith(upload.mimetype, ALLOWED_MIME_PREFIX)
    /\ validation.error = "Unsupported file type"
    /\ reply.status = 400 /\ remoteCalls = 0

\* C10 as stated: the first load of a path is mutually exclusive per key: at
\* most one request performs the session load for a path at a time, the
\* others reusing its result.
C10_FirstLoadExclusive ==
    \A t1 \in Threads : \A t2 \in Threads :
        (t1 # t2 /\ tpc[t1] = "loading" /\ tpc[t2] = "loading") => tkey[t1] # tkey[t2]

\* C10 amended: a request loads a session only when its lookup found no entry
\* for the path, and one that found the entry returns a session loaded for
\* that path without loading; requests that miss together each load, and
\* the cache keeps one entry per path, at most four in all.
C10_LoadOnlyOnMiss ==
    /\ \A t \in Threads :
           /\ tpc[t] = "loading" => ~tcached[t]
           /\ (tpc[t] = "returned" /\ tcached[t])
                  => (tsession[t].path = tkey[t] /\ tsession[t].loader \in Threads)
           /\ (tpc[t] = "returned" /\ ~tcached[t]) => tsession[t].loader = t
    /\ Len(cache) <= LruMaxSize
    /\ \A i \in 1..Len(cache) : \A j \in 1..Len(cache) :
           i # j => cache[i].key # cache[j].key
    /\ \A i \in 1..Len(cache) : cache[i].session.path = cache[i].key

\* Two requests missed the same path together and each loaded a session of
\* its own, one of which is the cached one.
C10_Witness ==
    \E t1 \in Threads : \E t2 \in Threads :
        /\ t1 # t2 /\ tkey[t1] = tkey[t2]
        /\ tpc[t1] = "returned" /\ tpc[t2] = "returned"
        /\ ~tcached[t1] /\ ~tcached[t2]
        /\ tsession[t1].loader = t1 /\ tsession[t2].loader = t2
        /\ LruHit(cache, tkey[t1])

====
